---------------------------- MODULE Spec2Model ----------------------------
(***************************************************************************)
(* A model of the volatility bot: the symbol resolver (validate_ticker),   *)
(* the analytics guard (analyze_market_data), the funding scanner          *)
(* (get_funding_data, get_top_funding_rates, check_extreme_funding) and    *)
(* the per-chat scan job registration of the bot (start_scanning_job).     *)
(*                                                                         *)
(* Each component has its own specification over the shared variables:     *)
(* SpecResolve, SpecJobs, SpecAnalyze and SpecFunding.  A component's      *)
(* specification leaves the variables of the others at their idle values.  *)
(***************************************************************************)
EXTENDS Integers, Sequences, FiniteSets, TLC

VARIABLES
    \* ---- symbol resolver (data_processing.validate_ticker) ----
    ticker_symbol,   \* the argument of the running call
    universe,        \* the exchange's instrument listing, as far as it has been served:
                     \* <<category, cursor>> -> page; a served page never changes
    cat,             \* index into search_order of the category being scanned
    cursor,          \* the local variable cursor
    pc,              \* "loop": about to issue a listing request; "done": returned
    result,          \* the returned tuple (exists, category)
    log,             \* the listing requests of the running call, in order
    failed,          \* whether a listing call of the running call failed
    first,           \* the outcome of the first call, once a second one has begun
    unlogged,        \* parity of the number of listing requests of the running call
                     \* that came after the log was full
    \* ---- bot handlers and the job queue (bot.py) ----
    jobs,            \* context.job_queue: the scheduled jobs, in order of creation
    handlers,        \* the handler coroutines suspended at an await
    REQUEST_COUNT,   \* the global request counter
    updates,         \* number of updates received so far
    alerted,         \* the chats a scan job has sent an alert to
    has_job_queue,   \* whether context.job_queue is set (the optional job-queue extra)
    \* ---- analytics (data_processing.analyze_market_data) ----
    candles,         \* the candle series handed to analyze_market_data
    stats,           \* what analyze_market_data returned
    \* ---- funding scanner (add_func.py) ----
    upstream,        \* what the ticker endpoint answers to successive requests
    call,            \* the last funding-scanner call and what it returned
    \* ---- candle harvester (data_processing.fetch_market_data) ----
    kline,           \* the rows the kline endpoint holds for the symbol, newest first
    harvest,         \* the last fetch_market_data call and what it returned
    \* ---- percentile levels (data_processing.analyze_market_data, section D) ----
    pumps,           \* the pump values of a series, in candle order
    levels           \* the six percentile levels computed from them

vars == <<ticker_symbol, universe, cat, cursor, pc, result, log, failed, first, unlogged,
          jobs, handlers, REQUEST_COUNT, updates, alerted, has_job_queue,
          candles, stats, upstream, call, kline, harvest,
          pumps, levels>>

resolveVars == <<ticker_symbol, universe, cat, cursor, pc, result, log, failed, first,
                 unlogged>>
jobVars     == <<jobs, handlers, REQUEST_COUNT, updates, alerted, has_job_queue>>
analyzeVars == <<candles, stats>>
fundingVars == <<upstream, call>>
harvestVars == <<kline, harvest>>
percentileVars == <<pumps, levels>>

Min(a, b) == IF a < b THEN a ELSE b

(***************************************************************************)
(*                         THE SYMBOL RESOLVER                             *)
(***************************************************************************)

\* Number of distinct non-empty page cursors the listing endpoint hands out.
MaxCursors == 1


CursorNames == <<"c1", "c2", "c3", "c4">>

\* The empty cursor "" is Python-falsy: it is never sent and ends a category.
Cursors == {""} \cup {CursorNames[i] : i \in 1..MaxCursors}

search_order_reversed == <<"spot", "inverse", "linear">>

search_order == <<"linear", "inverse", "spot">>

\* The log records the first MaxLog listing requests of a call: one more than a
\* call can issue when no cursor repeats.
MaxLog == Len(search_order) * (MaxCursors + 1) + 1

None == "None"

Symbols == {"BTCUSDT", "ETHUSDT"}

\* The instrument lists a page may carry.
PageLists == {<<[symbol |-> "ETHUSDT"]>>,
              <<[symbol |-> "ETHUSDT"], [symbol |-> "BTCUSDT"]>>}

\* The body of a successful listing response: result.list and result.nextPageCursor.
Pages == [list : PageLists, nextPageCursor : Cursors]

\* Why a listing call raises: requests.get (transport, timeout) or raise_for_status.
FailureKinds == {"transport", "timeout", "http_status"}

\* for item in instruments: if item.get("symbol") == ticker_symbol
RECURSIVE Matches(_, _)
Matches(instruments, symbol) ==
    IF instruments = <<>> THEN FALSE
    ELSE IF Head(instruments).symbol = symbol THEN TRUE
    ELSE Matches(Tail(instruments), symbol)

Record(entry) == IF Len(log) < MaxLog THEN Append(log, entry) ELSE log

\* One more request is counted: in the log while it has room, in the parity after.
Count == unlogged' = IF Len(log) < MaxLog THEN unlogged ELSE 1 - unlogged

NotFound == [exists |-> FALSE, category |-> None]

\* The for loop moves to the next category, or falls out of it to `return False, None`.
NextCategory ==
    IF cat < Len(search_order)
    THEN /\ cat' = cat + 1
         /\ cursor' = ""
         /\ UNCHANGED <<pc, result>>
    ELSE /\ pc' = "done"
         /\ result' = NotFound
         /\ UNCHANGED <<cat, cursor>>

\* The same, but the loop goes on when the returned cursor is empty.
ScanPage_no_break(page) ==
    LET category == search_order[cat]
        hit == Matches(page.list, ticker_symbol)
    IN  /\ log' = Record([category |-> category, cursor |-> cursor, ok |-> TRUE,
                          matched |-> hit, next |-> page.nextPageCursor])
        /\ IF hit
           THEN /\ pc' = "done"
                /\ result' = [exists |-> TRUE, category |-> category]
                /\ UNCHANGED <<cat, cursor>>
           ELSE /\ cursor' = page.nextPageCursor
                /\ UNCHANGED <<cat, pc, result>>

\* One iteration of the pagination loop whose request succeeds: the page is
\* scanned, a match returns, otherwise the cursor advances or the category ends.
ScanPage(page) ==
    LET category == search_order[cat]
        hit == Matches(page.list, ticker_symbol)
    IN  /\ log' = Record([category |-> category, cursor |-> cursor, ok |-> TRUE,
                          matched |-> hit, next |-> page.nextPageCursor])
        /\ IF hit
           THEN /\ pc' = "done"
                /\ result' = [exists |-> TRUE, category |-> category]
                /\ UNCHANGED <<cat, cursor>>
           ELSE IF page.nextPageCursor # ""
           THEN /\ cursor' = page.nextPageCursor
                /\ UNCHANGED <<cat, pc, result>>
           ELSE NextCategory

RequestPage ==
    /\ pc = "loop"
    /\ LET key == <<search_order[cat], cursor>>
       IN  \E page \in (IF key \in DOMAIN universe THEN {universe[key]} ELSE Pages) :
              /\ universe' = (key :> page) @@ universe
              /\ ScanPage(page)
    /\ Count
    /\ UNCHANGED <<ticker_symbol, failed, first>>

\* The failure ends the whole search.
OnListingError_gives_up(kind) ==
    /\ log' = Record([category |-> search_order[cat], cursor |-> cursor, ok |-> FALSE,
                      matched |-> FALSE, next |-> ""])
    /\ failed' = TRUE
    /\ pc' = "done"
    /\ result' = NotFound
    /\ UNCHANGED <<cat, cursor>>

\* except Exception: print, continue -- the next category is tried.
OnListingError(kind) ==
    /\ log' = Record([category |-> search_order[cat], cursor |-> cursor, ok |-> FALSE,
                      matched |-> FALSE, next |-> ""])
    /\ failed' = TRUE
    /\ NextCategory

RequestFail ==
    /\ pc = "loop"
    /\ \E kind \in FailureKinds : OnListingError(kind)
    /\ Count
    /\ UNCHANGED <<ticker_symbol, universe, first>>

\* The category iteration lives across calls: a call goes on where the last one stopped.
EnterResolve_shared_iterator ==
    /\ cat' = IF cat < Len(search_order) THEN cat + 1 ELSE cat
    /\ cursor' = ""
    /\ pc' = "loop"

\* Entry of validate_ticker: the for loop starts at the first category with an
\* empty cursor; nothing is kept from an earlier call.
EnterResolve ==
    /\ cat' = 1
    /\ cursor' = ""
    /\ pc' = "loop"

\* The same symbol is resolved a second time against the same universe.
ResolveAgain ==
    /\ pc = "done"
    /\ ~first.done
    /\ first' = [done |-> TRUE, result |-> result, failed |-> failed]
    /\ EnterResolve
    /\ result' = NotFound
    /\ log' = <<>>
    /\ unlogged' = 0
    /\ failed' = FALSE
    /\ UNCHANGED <<ticker_symbol, universe>>

InitResolver ==
    /\ ticker_symbol \in Symbols
    /\ universe = <<>>
    /\ cat = 1
    /\ cursor = ""
    /\ pc = "loop"
    /\ result = NotFound
    /\ log = <<>>
    /\ unlogged = 0
    /\ failed = FALSE
    /\ first = [done |-> FALSE, result |-> NotFound, failed |-> FALSE]

IdleResolver ==
    /\ ticker_symbol = "BTCUSDT"
    /\ universe = <<>>
    /\ cat = 1
    /\ cursor = ""
    /\ pc = "done"
    /\ result = NotFound
    /\ log = <<>>
    /\ unlogged = 0
    /\ failed = FALSE
    /\ first = [done |-> TRUE, result |-> NotFound, failed |-> FALSE]

IdleJobs ==
    /\ jobs = <<>>
    /\ handlers = <<>>
    /\ REQUEST_COUNT = 0
    /\ updates = 0
    /\ alerted = {}
    /\ has_job_queue = TRUE

(***************************************************************************)
(*                  THE BOT HANDLERS AND THE JOB QUEUE                     *)
(***************************************************************************)

\* Number of updates (commands and text messages) the bot receives.
MaxUpdates == 3

\* Telegram chat ids: users are positive, groups negative.
ChatIds == {7, -7, 70}

Digits == <<"0", "1", "2", "3", "4", "5", "6", "7", "8", "9">>

RECURSIVE DecStr(_)
DecStr(n) ==
    IF n < 10 THEN <<Digits[n + 1]>>
    ELSE Append(DecStr(n \div 10), Digits[(n % 10) + 1])

\* str(chat_id): the decimal digits, with a leading minus sign when negative.
str(n) == IF n < 0 THEN <<"-">> \o DecStr(-n) ELSE DecStr(n)

\* context.job_queue.get_jobs_by_name(name)
get_jobs_by_name(name) == SelectSeq(jobs, LAMBDA j : j.name = name)

\* A job is added whether or not the chat has one.
start_scanning_job_unchecked(chat_id, interval_ok) ==
    IF has_job_queue
    THEN IF interval_ok
         THEN jobs' = Append(jobs, [name |-> str(chat_id), chat_id |-> chat_id])
         ELSE UNCHANGED jobs
    ELSE UNCHANGED jobs

\* start_scanning_job(context, chat_id).  interval_ok: int(os.getenv("SCAN_INTERVAL",
\* 1200)) parses; when it raises, the except clause prints and nothing is scheduled.
start_scanning_job(chat_id, interval_ok) ==
    IF has_job_queue
    THEN IF get_jobs_by_name(str(chat_id)) = <<>>
         THEN IF interval_ok
              THEN jobs' = Append(jobs, [name |-> str(chat_id), chat_id |-> chat_id])
              ELSE UNCHANGED jobs
         ELSE UNCHANGED jobs
    ELSE UNCHANGED jobs

Remove(seq, i) == SubSeq(seq, 1, i - 1) \o SubSeq(seq, i + 1, Len(seq))

\* /start arrives: the handler runs up to its first await, the welcome reply.
ReceiveStart ==
    /\ updates < MaxUpdates
    /\ \E chat_id \in ChatIds :
          handlers' = Append(handlers, [kind |-> "start", chat_id |-> chat_id,
                                        scheduled |-> FALSE])
    /\ updates' = updates + 1
    /\ UNCHANGED <<jobs, REQUEST_COUNT, alerted, has_job_queue>>

\* The welcome reply of a /start handler completes: the handler goes on to
\* start_scanning_job and ends; when the reply raised, the handler ends there.
ResumeStart ==
    /\ \E i \in 1..Len(handlers) :
          /\ handlers[i].kind = "start"
          /\ handlers' = Remove(handlers, i)
          /\ \E replied \in BOOLEAN, interval_ok \in BOOLEAN :
                IF replied
                THEN start_scanning_job(handlers[i].chat_id, interval_ok)
                ELSE UNCHANGED jobs
    /\ UNCHANGED <<REQUEST_COUNT, updates, alerted, has_job_queue>>

\* A text message arrives: handle_message counts it, calls start_scanning_job and
\* runs up to its first await, the "Checking ..." reply.
ReceiveMessage ==
    /\ updates < MaxUpdates
    /\ \E chat_id \in ChatIds, interval_ok \in BOOLEAN :
          /\ start_scanning_job(chat_id, interval_ok)
          /\ handlers' = Append(handlers, [kind |-> "message", chat_id |-> chat_id,
                                           scheduled |-> has_job_queue /\ interval_ok])
    /\ REQUEST_COUNT' = REQUEST_COUNT + 1
    /\ updates' = updates + 1
    /\ UNCHANGED <<alerted, has_job_queue>>

\* The rest of handle_message (resolve, harvest, analyze, the report): it reads
\* and writes nothing of the job queue.
ResumeMessage ==
    /\ \E i \in 1..Len(handlers) :
          /\ handlers[i].kind = "message"
          /\ handlers' = Remove(handlers, i)
    /\ UNCHANGED <<jobs, REQUEST_COUNT, updates, alerted, has_job_queue>>

\* A scheduled job fires: scan_funding_job sends the report, when there is one,
\* to the chat of the job.
RunJob ==
    /\ \E i \in 1..Len(jobs), report \in BOOLEAN :
          alerted' = IF report THEN alerted \cup {jobs[i].chat_id} ELSE alerted
    /\ UNCHANGED <<jobs, handlers, REQUEST_COUNT, updates, has_job_queue>>

InitJobs ==
    /\ jobs = <<>>
    /\ handlers = <<>>
    /\ REQUEST_COUNT = 0
    /\ updates = 0
    /\ alerted = {}
    /\ has_job_queue \in BOOLEAN

(***************************************************************************)
(*                          THE FUNDING SCANNER                            *)
(***************************************************************************)

\* Number of records in the ticker snapshot.
MaxTickers == 3

\* Largest `limit` get_top_funding_rates is called with.
MaxLimit == 2

\* Rates are held in thousandths: -0.015 is -15.
Unit == 10 * 10 * 10

DigitValue(c) == (CHOOSE d \in 1..10 : Digits[d] = c) - 1

IsDigit(c) == \E d \in 1..10 : Digits[d] = c

RECURSIVE Number(_)
Number(ds) ==
    IF ds = <<>> THEN 0
    ELSE 10 * Number(SubSeq(ds, 1, Len(ds) - 1)) + DigitValue(ds[Len(ds)])

\* float(s) for a string s of characters: an optional sign, digits, at most one
\* point, at least one digit; anything else raises ValueError.  (Strings with
\* more than three decimals, exponents, "inf" and "nan" are not among the inputs.)
Signed(s) == s # <<>> /\ s[1] \in {"-", "+"}

Unsigned(s) == IF Signed(s) THEN Tail(s) ELSE s

Points(body) == {i \in 1..Len(body) : body[i] = "."}

\* Where the point of an unsigned numeral is, or one past its end.
PointAt(body) ==
    IF \A i \in 1..Len(body) : body[i] # "." THEN Len(body) + 1
    ELSE CHOOSE i \in 1..Len(body) : body[i] = "."

AllDigits(ds) == \A i \in 1..Len(ds) : IsDigit(ds[i])

\* The value of an unsigned numeral with the point at position dot, in thousandths.
Magnitude(body, dot) ==
    Number(SubSeq(body, 1, dot - 1)) * Unit
    + Number(SubSeq(SubSeq(body, dot + 1, Len(body)) \o <<"0", "0", "0">>, 1, 3))

WellFormed(body, dot) ==
    /\ Cardinality(Points(body)) <= 1
    /\ Len(SubSeq(body, 1, dot - 1)) + Len(SubSeq(body, dot + 1, Len(body))) > 0
    /\ AllDigits(SubSeq(body, 1, dot - 1))
    /\ AllDigits(SubSeq(body, dot + 1, Len(body)))

ParseFloat(s) ==
    IF WellFormed(Unsigned(s), PointAt(Unsigned(s)))
    THEN [ok |-> TRUE,
          value |-> IF Signed(s) /\ s[1] = "-"
                    THEN 0 - Magnitude(Unsigned(s), PointAt(Unsigned(s)))
                    ELSE Magnitude(Unsigned(s), PointAt(Unsigned(s)))]
    ELSE [ok |-> FALSE, value |-> 0]

\* Python values a JSON field can hold.
Str(chars) == [type |-> "str", chars |-> chars]
NoneValue == [type |-> "NoneType", chars |-> <<>>]
ListValue == [type |-> "list", chars |-> <<"1">>]

\* bool(v), as `if fr_str:` takes it.
Truthy(v) == v.type # "NoneType" /\ v.chars # <<>>

\* float(v): [ok, value], or the exception raised.
Float(v) ==
    IF v.type = "str"
    THEN LET p == ParseFloat(v.chars)
         IN  IF p.ok THEN [ok |-> TRUE, value |-> p.value, exc |-> ""]
             ELSE [ok |-> FALSE, value |-> 0, exc |-> "ValueError"]
    ELSE [ok |-> FALSE, value |-> 0, exc |-> "TypeError"]

SymbolAt == <<"BTCUSDT", "ETHUSDT", "XXXUSDT", "SOLUSDT", "DOGEUSDT">>

\* The fundingRate fields a record of the snapshot may carry.
RateFields == {Str(<<"-", "0", ".", "0", "5">>),
               Str(<<"-", "0", ".", "0", "2">>),
               Str(<<"-", "0", ".", "0", "1", "5">>),
               Str(<<"0", ".", "0", "1">>),
               Str(<<>>),
               Str(<<"n", "/", "a">>),
               NoneValue,
               ListValue}

\* The shapes a record of the snapshot may have: a quote with symbol and rate
\* field, a quote without the fundingRate field, a record with a rate and no symbol.
Absent == [type |-> "absent", chars |-> <<>>]

Shapes ==
    {[symbol |-> TRUE, rate |-> r] : r \in RateFields \cup {Absent}}
    \cup {[symbol |-> FALSE, rate |-> Str(<<"-", "0", ".", "0", "5">>)]}

\* The i-th record of a snapshot, of the given shape.
RecordAt(i, shape) ==
    IF ~shape.symbol THEN [fundingRate |-> shape.rate]
    ELSE IF shape.rate = Absent THEN [symbol |-> SymbolAt[i]]
    ELSE [symbol |-> SymbolAt[i], fundingRate |-> shape.rate]

\* How the ticker endpoint answers one request.
Answers == {"ok", "retcode", "transport", "timeout", "http_status"}

\* The JSON body of an answer that has one: retCode and result.list.
Body(answer, tickers) ==
    IF answer = "ok" THEN [retCode |-> 0, list |-> tickers]
    ELSE [retCode |-> 10001, list |-> <<>>]

Raises(answer) == answer \in {"transport", "timeout", "http_status"}

\* A failed request is tried once more.
get_funding_data_retry(answers, tickers) ==
    LET failed1 == Raises(answers[1]) \/ Body(answers[1], tickers).retCode # 0
    IN  IF ~failed1
        THEN [tickers |-> Body(answers[1], tickers).list, requests |-> 1]
        ELSE IF Raises(answers[2]) \/ Body(answers[2], tickers).retCode # 0
        THEN [tickers |-> <<>>, requests |-> 2]
        ELSE [tickers |-> Body(answers[2], tickers).list, requests |-> 2]

\* get_funding_data(): one request; answers[k] is what the endpoint would answer
\* to the k-th request of the call, tickers what it holds.
get_funding_data(answers, tickers) ==
    IF Raises(answers[1]) THEN [tickers |-> <<>>, requests |-> 1]
    ELSE IF Body(answers[1], tickers).retCode # 0
    THEN [tickers |-> <<>>, requests |-> 1]
    ELSE [tickers |-> Body(answers[1], tickers).list, requests |-> 1]

\* t.get("fundingRate", "")
FundingRateOf(t) == IF "fundingRate" \in DOMAIN t THEN t.fundingRate ELSE Str(<<>>)

\* The head of both filter loops, for one record t: fr_str = t.get(...), the
\* truth test, float(fr_str) under `except ValueError: continue`.  The record is
\* skipped, or its rate is parsed, or an exception other than ValueError leaves
\* the loop.
Examine(t) ==
    LET fr_str == FundingRateOf(t)
        fr == Float(fr_str)
    IN  IF ~Truthy(fr_str) THEN [kind |-> "skip", value |-> 0, exc |-> ""]
        ELSE IF fr.ok THEN [kind |-> "rate", value |-> fr.value, exc |-> ""]
        ELSE IF fr.exc = "ValueError" THEN [kind |-> "skip", value |-> 0, exc |-> ""]
        ELSE [kind |-> "raise", value |-> 0, exc |-> fr.exc]

\* The loop of get_top_funding_rates: the (symbol, rate) pairs with fr < 0, in
\* snapshot order, or the exception that left the loop.
RECURSIVE valid_tickers(_, _)
valid_tickers(tickers, acc) ==
    IF tickers = <<>> THEN [raised |-> "", pairs |-> acc]
    ELSE LET t == Head(tickers)
             e == Examine(t)
         IN  IF e.kind = "raise" THEN [raised |-> e.exc, pairs |-> acc]
             ELSE IF e.kind = "skip" \/ ~(e.value < 0)
             THEN valid_tickers(Tail(tickers), acc)
             ELSE IF "symbol" \notin DOMAIN t THEN [raised |-> "KeyError", pairs |-> acc]
             ELSE valid_tickers(Tail(tickers),
                                Append(acc, [symbol |-> t.symbol, rate |-> e.value]))

\* The loop of check_extreme_funding with a strict comparison.
RECURSIVE extreme_tickers_strict(_, _, _)
extreme_tickers_strict(tickers, threshold, acc) ==
    IF tickers = <<>> THEN [raised |-> "", pairs |-> acc]
    ELSE LET t == Head(tickers)
             e == Examine(t)
         IN  IF e.kind = "raise" THEN [raised |-> e.exc, pairs |-> acc]
             ELSE IF e.kind = "skip" \/ ~(e.value < threshold)
             THEN extreme_tickers_strict(Tail(tickers), threshold, acc)
             ELSE IF "symbol" \notin DOMAIN t THEN [raised |-> "KeyError", pairs |-> acc]
             ELSE extreme_tickers_strict(Tail(tickers), threshold,
                                         Append(acc, [symbol |-> t.symbol, rate |-> e.value]))

\* The loop of check_extreme_funding: the (symbol, rate) pairs with
\* fr <= threshold, in snapshot order, or the exception that left the loop.
RECURSIVE extreme_tickers(_, _, _)
extreme_tickers(tickers, threshold, acc) ==
    IF tickers = <<>> THEN [raised |-> "", pairs |-> acc]
    ELSE LET t == Head(tickers)
             e == Examine(t)
         IN  IF e.kind = "raise" THEN [raised |-> e.exc, pairs |-> acc]
             ELSE IF e.kind = "skip" \/ ~(e.value <= threshold)
             THEN extreme_tickers(Tail(tickers), threshold, acc)
             ELSE IF "symbol" \notin DOMAIN t THEN [raised |-> "KeyError", pairs |-> acc]
             ELSE extreme_tickers(Tail(tickers), threshold,
                                  Append(acc, [symbol |-> t.symbol, rate |-> e.value]))

\* list.sort(key=lambda x: x[1]): ascending by rate, equal rates keep their order.
RECURSIVE Insert(_, _)
Insert(sorted, x) ==
    IF sorted = <<>> THEN <<x>>
    ELSE IF x.rate < sorted[Len(sorted)].rate
    THEN Append(Insert(SubSeq(sorted, 1, Len(sorted) - 1), x), sorted[Len(sorted)])
    ELSE Append(sorted, x)

RECURSIVE SortByRate(_)
SortByRate(pairs) ==
    IF pairs = <<>> THEN <<>>
    ELSE Insert(SortByRate(SubSeq(pairs, 1, Len(pairs) - 1)), pairs[Len(pairs)])

CouldNotFetch == [kind |-> "text", text |-> "Error: Could not fetch funding data."]
NoNegative == [kind |-> "text", text |-> "No coins with negative funding rates found."]
ReturnsNone == [kind |-> "None"]

\* The rows of a report: rank, symbol and rate of each listed quote.
Rows(pairs) ==
    [i \in 1..Len(pairs) |-> [rank |-> i, symbol |-> pairs[i].symbol, rate |-> pairs[i].rate]]

\* The ranking is cut before it is sorted.
TopNegativeReport_cut_first(tickers, limit) ==
    LET c == valid_tickers(tickers, <<>>)
        top == SortByRate(SubSeq(c.pairs, 1, Min(limit, Len(c.pairs))))
    IN  IF c.raised # "" THEN [kind |-> "raise", exc |-> c.raised]
        ELSE IF top = <<>> THEN NoNegative
        ELSE [kind |-> "ranking", rows |-> Rows(top)]

\* get_top_funding_rates after the fetch: filter, sort, cut, render.
TopNegativeReport(tickers, limit) ==
    LET c == valid_tickers(tickers, <<>>)
        sorted == SortByRate(c.pairs)
        top == SubSeq(sorted, 1, Min(limit, Len(sorted)))
    IN  IF c.raised # "" THEN [kind |-> "raise", exc |-> c.raised]
        ELSE IF top = <<>> THEN NoNegative
        ELSE [kind |-> "ranking", rows |-> Rows(top)]

\* get_top_funding_rates(limit)
get_top_funding_rates(limit, answers, tickers) ==
    LET fetch == get_funding_data(answers, tickers)
    IN  [requests |-> fetch.requests,
         tickers |-> fetch.tickers,
         ret |-> IF fetch.tickers = <<>> THEN CouldNotFetch
                 ELSE TopNegativeReport(fetch.tickers, limit)]

\* check_extreme_funding after the fetch: filter, sort, render every match.
ExtremeReport(tickers, threshold) ==
    LET c == extreme_tickers(tickers, threshold, <<>>)
    IN  IF c.raised # "" THEN [kind |-> "raise", exc |-> c.raised]
        ELSE IF c.pairs = <<>> THEN ReturnsNone
        ELSE [kind |-> "alert", rows |-> Rows(SortByRate(c.pairs))]

\* check_extreme_funding(threshold)
check_extreme_funding(threshold, answers, tickers) ==
    LET fetch == get_funding_data(answers, tickers)
    IN  [requests |-> fetch.requests,
         tickers |-> fetch.tickers,
         ret |-> IF fetch.tickers = <<>> THEN ReturnsNone
                 ELSE ExtremeReport(fetch.tickers, threshold)]

\* The thresholds scan_funding_job passes: the default -0.015 and -0.02.
Thresholds == {0 - 15, 0 - 20}

\* What the endpoint answers to the request of a call and to a second request,
\* were the call to make one.
AnswerPairs == {a \in [1..2 -> Answers] : a[2] \in {"ok", "timeout"}}

\* /funding, or any caller of get_top_funding_rates.
CallTopNegative ==
    /\ call.op = "none"
    /\ \E limit \in 1..MaxLimit, answers \in AnswerPairs :
          LET r == get_top_funding_rates(limit, answers, upstream)
          IN  call' = [op |-> "topNegative", arg |-> limit, answer |-> answers[1],
                       requests |-> r.requests, tickers |-> r.tickers, ret |-> r.ret]
    /\ UNCHANGED upstream

\* scan_funding_job, or any caller of check_extreme_funding.
CallScanExtreme ==
    /\ call.op = "none"
    /\ \E threshold \in Thresholds, answers \in AnswerPairs :
          LET r == check_extreme_funding(threshold, answers, upstream)
          IN  call' = [op |-> "scanExtreme", arg |-> threshold, answer |-> answers[1],
                       requests |-> r.requests, tickers |-> r.tickers, ret |-> r.ret]
    /\ UNCHANGED upstream

\* The caller has used what the call returned; the scanner keeps nothing of it.
Return ==
    /\ call.op # "none"
    /\ call' = [op |-> "none", arg |-> 0, answer |-> "ok", requests |-> 0,
                tickers |-> <<>>, ret |-> ReturnsNone]
    /\ UNCHANGED upstream

NoCall == [op |-> "none", arg |-> 0, answer |-> "ok", requests |-> 0,
           tickers |-> <<>>, ret |-> ReturnsNone]

InitFunding ==
    /\ \E n \in 0..MaxTickers :
          \E shapes \in [1..n -> Shapes] :
             upstream = [i \in 1..n |-> RecordAt(i, shapes[i])]
    /\ call = NoCall

(***************************************************************************)
(*                          THE CANDLE HARVESTER                           *)
(***************************************************************************)

\* Most rows the kline endpoint holds for a symbol.
MaxRows == 3

\* ts = int(candle[0]) / 1000: the start time of a row is in milliseconds.
MsPerSecond == 1000

\* A JSON number.
IntValue(digits) == [type |-> "int", chars |-> digits]

\* int(v): [ok, value], or the exception raised.
int(v) ==
    IF v.type = "int" THEN [ok |-> TRUE, value |-> Number(v.chars), exc |-> ""]
    ELSE IF v.type # "str" THEN [ok |-> FALSE, value |-> 0, exc |-> "TypeError"]
    ELSE IF Unsigned(v.chars) # <<>> /\ AllDigits(Unsigned(v.chars))
    THEN [ok |-> TRUE,
          value |-> IF v.chars[1] = "-" THEN 0 - Number(Unsigned(v.chars))
                    ELSE Number(Unsigned(v.chars)),
          exc |-> ""]
    ELSE [ok |-> FALSE, value |-> 0, exc |-> "ValueError"]

TwoDigits(n) == <<Digits[(n \div 10) + 1], Digits[(n % 10) + 1]>>

\* datetime.fromtimestamp(ts).strftime("%Y-%m-%d") for a time of January 1970,
\* the local zone being UTC.
strftime(ts) ==
    <<"1", "9", "7", "0", "-", "0", "1", "-">> \o TwoDigits((ts \div (24 * 60 * 60)) + 1)

\* A row of the response: a list of fields, or something that is not a list.
KlineRow(time, open, close) ==
    [type |-> "list",
     items |-> <<time, Str(open), Str(<<"3">>), Str(<<"1">>), Str(close),
                 Str(<<"1", "0">>), Str(<<"2", "0">>)>>]

RowKinds ==
    {KlineRow(Str(<<"0">>), <<"2">>, <<"2">>),
     KlineRow(Str(<<"8", "6", "4", "0", "0", "0", "0", "0">>), <<"2">>, <<"2", ".", "5">>),
     KlineRow(IntValue(<<"1", "7", "2", "8", "0", "0", "0", "0", "0">>), <<"2">>, <<"2">>),
     KlineRow(Str(<<"n", "/", "a">>), <<"2">>, <<"2">>),
     KlineRow(NoneValue, <<"2">>, <<"2">>),
     [type |-> "list", items |-> <<Str(<<"8", "6", "4", "0", "0", "0", "0", "0">>), Str(<<"2">>)>>],
     [type |-> "list", items |-> <<>>],
     [type |-> "str", items |-> <<Str(<<"5">>)>>]}

\* raw_candles.reverse()
reverse_noop(raw_candles) == raw_candles

reverse(raw_candles) ==
    [i \in 1..Len(raw_candles) |-> raw_candles[Len(raw_candles) + 1 - i]]

\* The body of the conversion loop for one candle: the converted candle, or the
\* exception that leaves the loop (candle[0] of an empty row, int() of the
\* field, the assignment into something that is not a list).
CleanCandle(candle) ==
    IF candle.items = <<>> THEN [ok |-> FALSE, exc |-> "IndexError", candle |-> candle]
    ELSE IF ~int(candle.items[1]).ok
    THEN [ok |-> FALSE, exc |-> int(candle.items[1]).exc, candle |-> candle]
    ELSE IF candle.type # "list" THEN [ok |-> FALSE, exc |-> "TypeError", candle |-> candle]
    ELSE [ok |-> TRUE, exc |-> "",
          candle |-> [candle EXCEPT
                         !.items[1] = Str(strftime(int(candle.items[1]).value
                                                      \div MsPerSecond))]]

\* for candle in raw_candles: ... cleaned_candles.append(candle)
RECURSIVE cleaned_candles(_, _)
cleaned_candles(raw_candles, acc) ==
    IF raw_candles = <<>> THEN [raised |-> "", candles |-> acc]
    ELSE IF ~CleanCandle(Head(raw_candles)).ok
    THEN [raised |-> CleanCandle(Head(raw_candles)).exc, candles |-> acc]
    ELSE cleaned_candles(Tail(raw_candles),
                         Append(acc, CleanCandle(Head(raw_candles)).candle))

\* How get_kline answers: a response with rows, an exception (transport, HTTP
\* status, non-zero retCode), or a response without result.list.
KlineAnswers == {"ok", "raises", "no_list"}

\* response.get("result", {}).get("list", [])
raw_candles_of(answer, rows) == IF answer = "ok" THEN rows ELSE <<>>

Unavailable == [kind |-> "None", candles |-> <<>>]

\* fetch_market_data(ticker_symbol, category)
fetch_market_data(answer, rows) ==
    IF answer = "raises" THEN Unavailable
    ELSE IF raw_candles_of(answer, rows) = <<>> THEN Unavailable
    ELSE IF cleaned_candles(reverse(raw_candles_of(answer, rows)), <<>>).raised # ""
    THEN Unavailable
    ELSE [kind |-> "series",
          candles |-> cleaned_candles(reverse(raw_candles_of(answer, rows)), <<>>).candles]

NoHarvest == [op |-> "none", answer |-> "ok", received |-> <<>>, ret |-> Unavailable]

\* The exchange has one more row for the symbol.
AppendRow ==
    /\ harvest.op = "none"
    /\ Len(kline) < MaxRows
    /\ \E row \in RowKinds : kline' = Append(kline, row)
    /\ UNCHANGED harvest

\* candles = fetch_market_data(ticker, category)
Harvest ==
    /\ harvest.op = "none"
    /\ \E answer \in KlineAnswers :
          harvest' = [op |-> "done", answer |-> answer,
                      received |-> IF answer = "raises" THEN <<>>
                                   ELSE raw_candles_of(answer, kline),
                      ret |-> fetch_market_data(answer, kline)]
    /\ UNCHANGED kline

InitHarvest ==
    /\ kline = <<>>
    /\ harvest = NoHarvest

IdleHarvest ==
    /\ kline = <<>>
    /\ harvest = NoHarvest

(***************************************************************************)
(*                             THE ANALYTICS                               *)
(***************************************************************************)

\* Longest candle series handed to analyze_market_data.
MaxCandles == 31

\* Number of leading candles of a series chosen freely; the last of them is
\* repeated up to the length of the series.
MaxVaried == 2

\* if not candles or len(candles) < 30
MinCandles == 30

\* A candle as fetch_market_data returns it: [date, open, high, low, close,
\* volume, turnover], the numbers string-encoded as the exchange delivers them.
Candle(date, open, high, low, close) ==
    <<date, open, high, low, close, <<"1", "0">>, <<"2", "0">>>>

CandleKinds ==
    {Candle("2024-01-01", <<"2">>, <<"3">>, <<"1">>, <<"2">>),
     Candle("2024-01-02", <<"2">>, <<"2", ".", "5">>, <<"2">>, <<"2", ".", "5">>),
     Candle("2024-01-03", <<"0">>, <<"1">>, <<"0">>, <<"0">>),
     Candle("2024-01-04", <<"n", "/", "a">>, <<"1">>, <<"1">>, <<"1">>)}

\* Python indexes a candle from 0: candle[1] is the open, candle[4] the close.
Field(candle, k) == candle[k + 1]

\* float(candle[k]), in thousandths, where it parses.
Num(candle, k) == ParseFloat(Field(candle, k)).value

Abs(x) == IF x < 0 THEN 0 - x ELSE x

Max(a, b) == IF a < b THEN b ELSE a

\* A fraction n/d with d > 0, and the order of fractions.
Ratio(n, d) == <<n, d>>
Less(x, y) == x[1] * y[2] < y[1] * x[2]

RECURSIVE Sum(_)
Sum(xs) == IF xs = <<>> THEN 0 ELSE Head(xs) + Sum(Tail(xs))

Last(xs, n) == SubSeq(xs, Len(xs) - n + 1, Len(xs))

\* Values the model does not evaluate: statistics.stdev and statistics.mean of a
\* sample of fractions, and a standard deviation times the root of 7.
Stdev(sample) == [fn |-> "stdev", of |-> sample, times_sqrt |-> 1]
StdevTimesSqrt7(sample) == [fn |-> "stdev", of |-> sample, times_sqrt |-> 7]
Mean(sample) == [fn |-> "mean", of |-> sample, times_sqrt |-> 1]

\* The grand loop, container by container.
Opens(cs) == SelectSeq([i \in 1..Len(cs) |-> i], LAMBDA i : Num(cs[i], 1) > 0)

pump_data(cs) ==
    LET at == Opens(cs)
    IN  [j \in 1..Len(at) |->
            [value |-> Ratio(Num(cs[at[j]], 2) - Num(cs[at[j]], 1), Num(cs[at[j]], 1)),
             date |-> Field(cs[at[j]], 0)]]

dump_data(cs) ==
    LET at == Opens(cs)
    IN  [j \in 1..Len(at) |->
            [value |-> Ratio(Num(cs[at[j]], 3) - Num(cs[at[j]], 1), Num(cs[at[j]], 1)),
             date |-> Field(cs[at[j]], 0)]]

\* math.log(curr_close / prev_close) is kept as the fraction whose logarithm it is.
log_returns(cs) ==
    LET at == SelectSeq([i \in 1..Len(cs) |-> i],
                        LAMBDA i : i > 1 /\ Num(cs[i - 1], 4) > 0 /\ Num(cs[i], 4) > 0)
    IN  [j \in 1..Len(at) |-> Ratio(Num(cs[at[j]], 4), Num(cs[at[j] - 1], 4))]

tr_list(cs) ==
    [j \in 1..(Len(cs) - 1) |->
        LET curr == cs[j + 1]
            prev_close == Num(cs[j], 4)
        IN  Max(Max(Num(curr, 2) - Num(curr, 3), Abs(Num(curr, 2) - prev_close)),
                Abs(Num(curr, 3) - prev_close))]

\* max(data, key=lambda x: x[0]) and min(...): the first extreme element.
RECURSIVE MaxBy(_)
MaxBy(data) ==
    IF Len(data) = 1 THEN data[1]
    ELSE LET m == MaxBy(SubSeq(data, 1, Len(data) - 1))
         IN  IF Less(m.value, data[Len(data)].value) THEN data[Len(data)] ELSE m

RECURSIVE MinBy(_)
MinBy(data) ==
    IF Len(data) = 1 THEN data[1]
    ELSE LET m == MinBy(SubSeq(data, 1, Len(data) - 1))
         IN  IF Less(data[Len(data)].value, m.value) THEN data[Len(data)] ELSE m

Values(data) == [j \in 1..Len(data) |-> data[j].value]
AsData(values) == [j \in 1..Len(values) |-> [value |-> values[j], date |-> ""]]

\* sorted(values): ascending, equal values keep their order.
RECURSIVE InsertRatio(_, _)
InsertRatio(sorted, x) ==
    IF sorted = <<>> THEN <<x>>
    ELSE IF Less(x, sorted[Len(sorted)])
    THEN Append(InsertRatio(SubSeq(sorted, 1, Len(sorted) - 1), x), sorted[Len(sorted)])
    ELSE Append(sorted, x)

RECURSIVE Sorted(_)
Sorted(values) ==
    IF values = <<>> THEN <<>>
    ELSE InsertRatio(Sorted(SubSeq(values, 1, Len(values) - 1)), values[Len(values)])

\* The index is counted from the top of the sorted list.
get_p_from_top(pv, percent) == pv[Len(pv) - ((Len(pv) * percent) \div 100)]

\* get_p(percent) with percent given in hundredths: pv[int(n * percent)].
get_p(pv, percent) == pv[((Len(pv) * percent) \div 100) + 1]

VolatilityStats(cs) ==
    LET lr == log_returns(cs)
        max_log == IF lr # <<>> THEN MaxBy(AsData(lr)).value ELSE Ratio(1, 1)
        min_log == IF lr # <<>> THEN MinBy(AsData(lr)).value ELSE Ratio(1, 1)
    IN  [vol_day |-> IF Len(lr) > 1 THEN Stdev(lr) ELSE Ratio(0, 1),
         vol_week |-> IF Len(lr) > 1 THEN StdevTimesSqrt7(lr) ELSE Ratio(0, 1),
         max_daily_surge |-> Ratio(max_log[1] - max_log[2], max_log[2]),
         max_daily_crash |-> Ratio(min_log[1] - min_log[2], min_log[2])]

PumpStats(cs) ==
    LET pd == pump_data(cs)
    IN  IF pd # <<>>
        THEN [max_pump_val |-> MaxBy(pd).value,
              max_pump_date |-> MaxBy(pd).date,
              avg_pump |-> Mean(Values(pd)),
              std_pump |-> IF Len(pd) > 1 THEN Stdev(Values(pd)) ELSE Ratio(0, 1)]
        ELSE [max_pump_val |-> Ratio(0, 1),
              max_pump_date |-> "N/A",
              avg_pump |-> Ratio(0, 1),
              std_pump |-> Ratio(0, 1)]

DumpStats(cs) ==
    LET dd == dump_data(cs)
    IN  IF dd # <<>>
        THEN [max_dump_val |-> MinBy(dd).value,
              max_dump_date |-> MinBy(dd).date,
              avg_dump |-> Mean(Values(dd)),
              std_dump |-> IF Len(dd) > 1 THEN Stdev(Values(dd)) ELSE Ratio(0, 1)]
        ELSE [max_dump_val |-> Ratio(0, 1),
              max_dump_date |-> "N/A",
              avg_dump |-> Ratio(0, 1),
              std_dump |-> Ratio(0, 1)]

AtrStats(cs) ==
    LET tr == tr_list(cs)
        current_close == Num(cs[Len(cs)], 4)
    IN  [atr_14 |-> IF Len(tr) >= 14 THEN Ratio(Sum(Last(tr, 14)), 14) ELSE Ratio(0, 1),
         atr_28 |-> IF Len(tr) >= 28 THEN Ratio(Sum(Last(tr, 28)), 28) ELSE Ratio(0, 1),
         atr_relative |-> IF Len(tr) >= 28 /\ current_close > 0
                          THEN Ratio(Sum(Last(tr, 28)), 28 * current_close)
                          ELSE Ratio(0, 1)]

PercentileStats(cs) ==
    LET pd == pump_data(cs)
        pv == Sorted(Values(pd))
    IN  IF pd # <<>>
        THEN [p75_pump |-> get_p(pv, 75), p80_pump |-> get_p(pv, 80),
              p85_pump |-> get_p(pv, 85), p90_pump |-> get_p(pv, 90),
              p95_pump |-> get_p(pv, 95), p99_pump |-> get_p(pv, 99)]
        ELSE [p75_pump |-> Ratio(0, 1), p80_pump |-> Ratio(0, 1),
              p85_pump |-> Ratio(0, 1), p90_pump |-> Ratio(0, 1),
              p95_pump |-> Ratio(0, 1), p99_pump |-> Ratio(0, 1)]

\* Every float(candle[1..4]) of the loop succeeds.
Numeric(cs) ==
    \A i \in 1..Len(cs), k \in 1..4 : ParseFloat(Field(cs[i], k)).ok

\* What analyze_market_data does with a series that passed the length check.
Compile(cs) ==
    IF ~Numeric(cs) THEN [kind |-> "raise", exc |-> "ValueError"]
    ELSE [kind |-> "stats",
          stats |-> VolatilityStats(cs) @@ PumpStats(cs) @@ DumpStats(cs)
                    @@ AtrStats(cs) @@ PercentileStats(cs)]

\* The length check asks for the 28 candles of the longest ATR window only.
analyze_market_data_atr_window(cs) ==
    IF cs = <<>> \/ Len(cs) < 28 THEN [kind |-> "None"] ELSE Compile(cs)

\* analyze_market_data(candles)
analyze_market_data(cs) ==
    IF cs = <<>> \/ Len(cs) < MinCandles THEN [kind |-> "None"] ELSE Compile(cs)

NotReturned == [returned |-> FALSE, value |-> [kind |-> "None"]]

\* The caller extends the series it is about to hand over.
AppendCandle ==
    /\ Len(candles) < MaxCandles
    /\ \E c \in CandleKinds :
          /\ IF Len(candles) < MaxVaried THEN TRUE ELSE c = candles[Len(candles)]
          /\ candles' = Append(candles, c)
    /\ stats' = NotReturned

\* stats = analyze_market_data(candles)
Analyze ==
    /\ ~stats.returned
    /\ stats' = [returned |-> TRUE, value |-> analyze_market_data(candles)]
    /\ UNCHANGED candles

InitAnalyze ==
    /\ candles = <<>>
    /\ stats = NotReturned

\* Most pump values of a series, and how many of them vary freely: the later
\* ones repeat the last.
MaxPumps == 21
MaxVariedPumps == 3

PumpKinds == {Ratio(1, 2), Ratio(1, 4), Ratio(0, 1)}

\* Section D for the pump values of a series: sort, then six times get_p; zeros
\* when there is no pump.
PercentileLevels(pump_values) ==
    IF pump_values # <<>>
    THEN [p75_pump |-> get_p(Sorted(pump_values), 75),
          p80_pump |-> get_p(Sorted(pump_values), 80),
          p85_pump |-> get_p(Sorted(pump_values), 85),
          p90_pump |-> get_p(Sorted(pump_values), 90),
          p95_pump |-> get_p(Sorted(pump_values), 95),
          p99_pump |-> get_p(Sorted(pump_values), 99)]
    ELSE [p75_pump |-> Ratio(0, 1), p80_pump |-> Ratio(0, 1),
          p85_pump |-> Ratio(0, 1), p90_pump |-> Ratio(0, 1),
          p95_pump |-> Ratio(0, 1), p99_pump |-> Ratio(0, 1)]

NotComputed == [computed |-> FALSE, value |-> PercentileLevels(<<>>)]

\* The grand loop appends the pump of one more candle.
AppendPump ==
    /\ Len(pumps) < MaxPumps
    /\ \E pump \in PumpKinds :
          /\ IF Len(pumps) < MaxVariedPumps THEN TRUE ELSE pump = pumps[Len(pumps)]
          /\ pumps' = Append(pumps, pump)
    /\ levels' = NotComputed

\* Section D runs on the pump values collected.
ComputeLevels ==
    /\ ~levels.computed
    /\ levels' = [computed |-> TRUE, value |-> PercentileLevels(pumps)]
    /\ UNCHANGED pumps

InitPercentile ==
    /\ pumps = <<>>
    /\ levels = NotComputed

IdlePercentile ==
    /\ pumps = <<>>
    /\ levels = NotComputed

IdleAnalyze ==
    /\ candles = <<>>
    /\ stats = NotReturned

IdleFunding ==
    /\ upstream = <<>>
    /\ call = NoCall

NextResolve ==
    \/ RequestPage /\ UNCHANGED <<jobVars, analyzeVars, fundingVars, harvestVars, percentileVars>>
    \/ RequestFail /\ UNCHANGED <<jobVars, analyzeVars, fundingVars, harvestVars, percentileVars>>
    \/ ResolveAgain /\ UNCHANGED <<jobVars, analyzeVars, fundingVars, harvestVars, percentileVars>>

InitResolve == InitResolver /\ IdleJobs /\ IdleAnalyze /\ IdleFunding /\ IdleHarvest /\ IdlePercentile

SpecResolve ==
    /\ InitResolve
    /\ [][NextResolve]_vars

\* A listing request completes: requests.get returns a response or raises
\* (timeout=10 bounds the wait).
Request ==
    (RequestPage \/ RequestFail)
    /\ UNCHANGED <<jobVars, analyzeVars, fundingVars, harvestVars, percentileVars>>

\* The resolver with every listing request completing.
SpecResolveLive ==
    /\ InitResolve
    /\ [][NextResolve]_vars
    /\ WF_vars(Request)


NextJobs ==
    \/ ReceiveStart /\ UNCHANGED <<resolveVars, analyzeVars, fundingVars, harvestVars, percentileVars>>
    \/ ResumeStart /\ UNCHANGED <<resolveVars, analyzeVars, fundingVars, harvestVars, percentileVars>>
    \/ ReceiveMessage /\ UNCHANGED <<resolveVars, analyzeVars, fundingVars, harvestVars, percentileVars>>
    \/ ResumeMessage /\ UNCHANGED <<resolveVars, analyzeVars, fundingVars, harvestVars, percentileVars>>
    \/ RunJob /\ UNCHANGED <<resolveVars, analyzeVars, fundingVars, harvestVars, percentileVars>>

InitBot == IdleResolver /\ InitJobs /\ IdleAnalyze /\ IdleFunding /\ IdleHarvest /\ IdlePercentile

SpecJobs ==
    /\ InitBot
    /\ [][NextJobs]_vars

NextFunding ==
    \/ CallTopNegative /\ UNCHANGED <<resolveVars, jobVars, analyzeVars, harvestVars, percentileVars>>
    \/ CallScanExtreme /\ UNCHANGED <<resolveVars, jobVars, analyzeVars, harvestVars, percentileVars>>
    \/ Return /\ UNCHANGED <<resolveVars, jobVars, analyzeVars, harvestVars, percentileVars>>

InitScanner == IdleResolver /\ IdleJobs /\ IdleAnalyze /\ InitFunding /\ IdleHarvest /\ IdlePercentile

SpecFunding ==
    /\ InitScanner
    /\ [][NextFunding]_vars

NextAnalyze ==
    \/ AppendCandle /\ UNCHANGED <<resolveVars, jobVars, fundingVars, harvestVars, percentileVars>>
    \/ Analyze /\ UNCHANGED <<resolveVars, jobVars, fundingVars, harvestVars, percentileVars>>

InitAnalytics == IdleResolver /\ IdleJobs /\ InitAnalyze /\ IdleFunding /\ IdleHarvest /\ IdlePercentile

SpecAnalyze ==
    /\ InitAnalytics
    /\ [][NextAnalyze]_vars

NextHarvest ==
    \/ AppendRow /\ UNCHANGED <<resolveVars, jobVars, analyzeVars, fundingVars, percentileVars>>
    \/ Harvest /\ UNCHANGED <<resolveVars, jobVars, analyzeVars, fundingVars, percentileVars>>

InitHarvester == IdleResolver /\ IdleJobs /\ IdleAnalyze /\ IdleFunding /\ InitHarvest /\ IdlePercentile

SpecHarvest ==
    /\ InitHarvester
    /\ [][NextHarvest]_vars

NextPercentile ==
    \/ AppendPump /\ UNCHANGED <<resolveVars, jobVars, analyzeVars, fundingVars, harvestVars>>
    \/ ComputeLevels /\ UNCHANGED <<resolveVars, jobVars, analyzeVars, fundingVars, harvestVars>>

InitPercentiles ==
    IdleResolver /\ IdleJobs /\ IdleAnalyze /\ IdleFunding /\ IdleHarvest /\ InitPercentile

SpecPercentile ==
    /\ InitPercentiles
    /\ [][NextPercentile]_vars

(***************************************************************************)
(*                    PROPERTIES OF THE SYMBOL RESOLVER                    *)
(***************************************************************************)

\* The preference order the resolver is documented to follow.
PreferenceOrder == <<"linear", "inverse", "spot">>

\* The cursors of category c that following the served next-page cursors from
\* the empty cursor leads to (the last may not have been served yet).
RECURSIVE ReachFrom(_, _, _)
ReachFrom(c, cur, seen) ==
    IF cur \in seen THEN seen
    ELSE IF <<c, cur>> \notin DOMAIN universe THEN seen \cup {cur}
    ELSE LET n == universe[<<c, cur>>].nextPageCursor
         IN  IF n = "" THEN seen \cup {cur} ELSE ReachFrom(c, n, seen \cup {cur})

Reach(c) == ReachFrom(c, "", {})

\* Every page of category c's listing has been served.
FullyKnown(c) == \A cur \in Reach(c) : <<c, cur>> \in DOMAIN universe

\* Some served page of category c's listing holds an exact match of the symbol.
Listed(c) ==
    \E cur \in Reach(c) :
        /\ <<c, cur>> \in DOMAIN universe
        /\ \E i \in 1..Len(universe[<<c, cur>>].list) :
              universe[<<c, cur>>].list[i].symbol = ticker_symbol

\* The log holds every request of the running call.
LogComplete == Len(log) < MaxLog

Requests(c) == {i \in 1..Len(log) : log[i].category = c}

\* C1: a call in which no listing call failed returns (true, c) for the first
\* category c, in the order linear, inverse, spot, whose listing holds the symbol
\* on one of its pages, and (false, None) when no listing holds it; the request
\* that found the match is the last request of the call.
C1_FirstListedCategory ==
    /\ (pc = "done" /\ ~failed) =>
          IF result.exists
          THEN \E i \in 1..3 :
                  /\ result.category = PreferenceOrder[i]
                  /\ Listed(PreferenceOrder[i])
                  /\ \A j \in 1..(i - 1) :
                        FullyKnown(PreferenceOrder[j]) /\ ~Listed(PreferenceOrder[j])
          ELSE /\ result.category = None
               /\ \A j \in 1..3 :
                     FullyKnown(PreferenceOrder[j]) /\ ~Listed(PreferenceOrder[j])
    /\ \A i \in 1..Len(log) :
          log[i].matched =>
             /\ i = Len(log)
             /\ pc = "done"
             /\ result = [exists |-> TRUE, category |-> log[i].category]

\* A call without failures returned linear for a symbol that spot lists too.
C1_Witness ==
    /\ pc = "done" /\ ~failed
    /\ result = [exists |-> TRUE, category |-> "linear"]
    /\ Listed("spot")

\* C2: a failed listing call never ends the search before the last category:
\* the next request goes to the next category with an empty cursor, and
\* not-found is returned only after all three categories were requested, each
\* of them having failed or having been scanned to its end without a match.
C2_FailureMovesOn ==
    /\ \A i \in 1..Len(log) :
          (~log[i].ok /\ LogComplete) =>
             LET k == CHOOSE k \in 1..3 : PreferenceOrder[k] = log[i].category
             IN  IF i < Len(log)
                 THEN /\ k < 3
                      /\ log[i + 1].category = PreferenceOrder[k + 1]
                      /\ log[i + 1].cursor = ""
                 ELSE IF k < 3
                 THEN /\ pc = "loop"
                      /\ search_order[cat] = PreferenceOrder[k + 1]
                      /\ cursor = ""
                 ELSE pc = "done" /\ result = NotFound
    /\ (pc = "done" /\ ~result.exists /\ LogComplete) =>
          \A k \in 1..3 :
             LET c == PreferenceOrder[k]
             IN  /\ Requests(c) # {}
                 /\ \/ \E i \in Requests(c) : ~log[i].ok
                    \/ FullyKnown(c) /\ ~Listed(c)

\* The linear listing failed and the symbol was still found in spot.
C2_Witness ==
    /\ pc = "done"
    /\ result = [exists |-> TRUE, category |-> "spot"]
    /\ \E i \in 1..Len(log) : log[i].category = "linear" /\ ~log[i].ok

\* C3: the first request of a category carries no cursor; a further request in
\* the same category follows only a page without match that returned a
\* non-empty cursor, and carries exactly that cursor; a category whose first
\* page returned an empty cursor is requested exactly once.
C3_PaginationFollowsCursor ==
    /\ \A i \in 1..Len(log) :
          IF i > 1 /\ log[i - 1].category = log[i].category
          THEN /\ log[i - 1].ok
               /\ ~log[i - 1].matched
               /\ log[i - 1].next # ""
               /\ log[i].cursor = log[i - 1].next
          ELSE log[i].cursor = ""
    /\ \A k \in 1..3 :
          LET c == PreferenceOrder[k]
          IN  (/\ LogComplete
               /\ <<c, "">> \in DOMAIN universe
               /\ universe[<<c, "">>].nextPageCursor = "") =>
                  /\ Cardinality(Requests(c)) <= 1
                  /\ (cat > k \/ (pc = "done" /\ ~result.exists)) =>
                        Cardinality(Requests(c)) = 1

\* Linear was paged with the returned cursor, inverse ended on its first page
\* and the call went on to spot.
C3_Witness ==
    /\ Len(log) = 3
    /\ log[1].category = "linear" /\ log[1].next # ""
    /\ log[2].category = "linear" /\ log[2].cursor = log[1].next /\ log[2].next = ""
    /\ log[3].category = "inverse" /\ log[3].ok /\ log[3].next = ""
    /\ pc = "loop" /\ cat = 3

JobsOf(chat_id) == {i \in 1..Len(jobs) : jobs[i].chat_id = chat_id}

\* C5: the job queue holds at most one job per chat, named after the chat id and
\* under a name no other chat's job has; and a chat whose message handler got
\* past start_scanning_job (job queue present, interval parsed) has its job,
\* whatever jobs other chats hold.
C5_OneJobPerChat ==
    /\ \A chat_id \in ChatIds : Cardinality(JobsOf(chat_id)) <= 1
    /\ \A i, j \in 1..Len(jobs) : jobs[i].name = jobs[j].name => i = j
    /\ \A i \in 1..Len(jobs) : jobs[i].name = str(jobs[i].chat_id)
    /\ \A i \in 1..Len(handlers) :
          handlers[i].scheduled => JobsOf(handlers[i].chat_id) # {}

\* Two chats hold a job each, and one of them has sent a /start and a message
\* on top of the update that created its job.
C5_Witness ==
    /\ Len(jobs) = 2
    /\ updates = 3
    /\ \E i, j \in 1..Len(handlers) :
          /\ i # j
          /\ handlers[i].chat_id = handlers[j].chat_id
          /\ handlers[i].kind = "start" /\ handlers[j].kind = "message"
          /\ JobsOf(handlers[i].chat_id) # {}

(***************************************************************************)
(*                      PROPERTIES OF THE ANALYTICS                        *)
(***************************************************************************)

\* The metrics of an analysis result, as the report of the bot reads them.
MetricNames ==
    {"vol_day", "vol_week", "max_daily_surge", "max_daily_crash",
     "max_pump_val", "max_pump_date", "avg_pump", "std_pump",
     "max_dump_val", "max_dump_date", "avg_dump", "std_dump",
     "atr_14", "atr_28", "atr_relative",
     "p75_pump", "p80_pump", "p85_pump", "p90_pump", "p95_pump", "p99_pump"}

\* C6: for a series of fewer than 30 candles, the empty one included,
\* analyze_market_data returns None; for a series of 30 or more candles whose
\* price fields are numeric it returns a mapping that holds every metric.
C6_InsufficientData ==
    stats.returned =>
        /\ Len(candles) < 30 => stats.value = [kind |-> "None"]
        /\ (Len(candles) >= 30 /\ Numeric(candles)) =>
              /\ stats.value.kind = "stats"
              /\ DOMAIN stats.value.stats = MetricNames

\* A series of 29 numeric candles was analyzed.
C6_Witness ==
    /\ stats.returned
    /\ Len(candles) = 29
    /\ Numeric(candles)
    /\ stats.value = [kind |-> "None"]

(***************************************************************************)
(*                   PROPERTIES OF THE FUNDING SCANNER                     *)
(***************************************************************************)

\* The call was served a non-empty snapshot.
Served == call.op # "none" /\ call.answer = "ok" /\ upstream # <<>>

\* Every record of the snapshot is a quote: it has a symbol, and its rate field
\* is absent or a string (empty, numeric or not).
AllQuotes ==
    \A i \in 1..Len(upstream) :
        "symbol" \in DOMAIN upstream[i] /\ FundingRateOf(upstream[i]).type = "str"

\* The rate field of record i is a string that parses as a number.
HasRate(i) ==
    LET v == FundingRateOf(upstream[i])
    IN  v.type = "str" /\ ParseFloat(v.chars).ok

RateAt(i) == ParseFloat(FundingRateOf(upstream[i]).chars).value

Ascending(rows) == \A a, b \in 1..Len(rows) : a < b => rows[a].rate <= rows[b].rate

\* Each row is the symbol and parsed rate of a quote of `among`, no quote twice.
RowsFrom(rows, among) ==
    /\ \A j \in 1..Len(rows) :
          \E i \in among : upstream[i].symbol = rows[j].symbol /\ RateAt(i) = rows[j].rate
    /\ \A a, b \in 1..Len(rows) : rows[a].symbol = rows[b].symbol => a = b

\* C7: on a non-empty snapshot of quotes, of which k have a parsed rate below
\* zero, get_top_funding_rates(n) lists min(n, k) of them, ranked from 1 in
\* ascending order of rate, no unlisted negative quote having a lower rate than
\* a listed one; with k = 0 it returns the no-negative-funding message.
C7_TopNegative ==
    (call.op = "topNegative" /\ Served /\ AllQuotes) =>
        LET neg == {i \in 1..Len(upstream) : HasRate(i) /\ RateAt(i) < 0}
            k == Cardinality(neg)
        IN  IF k = 0 THEN call.ret = NoNegative
            ELSE /\ call.ret.kind = "ranking"
                 /\ LET rows == call.ret.rows
                    IN  /\ Len(rows) = Min(call.arg, k)
                        /\ \A j \in 1..Len(rows) : rows[j].rank = j /\ rows[j].rate < 0
                        /\ RowsFrom(rows, neg)
                        /\ Ascending(rows)
                        /\ \A i \in neg :
                              (\A j \in 1..Len(rows) : rows[j].symbol # upstream[i].symbol)
                                 => RateAt(i) >= rows[Len(rows)].rate

\* Three negative quotes, the lowest of them last in the snapshot, and the two
\* lowest listed.
C7_Witness ==
    /\ call.op = "topNegative" /\ Served /\ AllQuotes
    /\ call.arg = 2
    /\ Len(upstream) = 3
    /\ \A i \in 1..3 : HasRate(i) /\ RateAt(i) < 0
    /\ RateAt(3) < RateAt(1) /\ RateAt(1) < RateAt(2)
    /\ call.ret.kind = "ranking"
    /\ Len(call.ret.rows) = 2
    /\ call.ret.rows[1].symbol = "XXXUSDT"
    /\ call.ret.rows[2].symbol = "BTCUSDT"

\* C8: on a non-empty snapshot of quotes, check_extreme_funding(threshold)
\* returns None when no parsed rate is at or below the threshold, and otherwise
\* lists every quote whose parsed rate is at or below it, and no other, in
\* ascending order of rate.
C8_ScanExtreme ==
    (call.op = "scanExtreme" /\ Served /\ AllQuotes) =>
        LET ext == {i \in 1..Len(upstream) : HasRate(i) /\ RateAt(i) <= call.arg}
        IN  IF ext = {} THEN call.ret = ReturnsNone
            ELSE /\ call.ret.kind = "alert"
                 /\ Len(call.ret.rows) = Cardinality(ext)
                 /\ RowsFrom(call.ret.rows, ext)
                 /\ Ascending(call.ret.rows)

\* A quote at the threshold and two below it are all listed, a positive one is not.
C8_Witness ==
    /\ call.op = "scanExtreme" /\ Served /\ AllQuotes
    /\ Len(upstream) = 3
    /\ \E i \in 1..3 : HasRate(i) /\ RateAt(i) = call.arg
    /\ \E i \in 1..3 : HasRate(i) /\ RateAt(i) > 0
    /\ call.ret.kind = "alert"
    /\ Len(call.ret.rows) = 2
    /\ call.ret.rows[1].rate < call.ret.rows[2].rate
    /\ call.ret.rows[2].rate = call.arg

RemoveAt(seq, i) == SubSeq(seq, 1, i - 1) \o SubSeq(seq, i + 1, Len(seq))

ReportOn(tickers) ==
    IF call.op = "topNegative" THEN TopNegativeReport(tickers, call.arg)
    ELSE ExtremeReport(tickers, call.arg)

\* C9: on a non-empty snapshot no record makes either operation raise, and a
\* record whose rate field is missing, empty or not a number is dropped: the
\* report is the report on the snapshot without that record (where other
\* records remain).
C9_MalformedSkipped ==
    Served =>
        /\ call.ret.kind # "raise"
        /\ \A i \in 1..Len(upstream) :
              (Len(upstream) > 1 /\ ~HasRate(i)) =>
                  call.ret = ReportOn(RemoveAt(upstream, i))

\* C10: when the fetch fails (transport error, timeout, HTTP status, non-zero
\* retCode) or yields an empty list, get_funding_data returns the empty list
\* after a single request, get_top_funding_rates returns the could-not-fetch
\* message and check_extreme_funding returns None.
C10_FetchFailure ==
    (call.op # "none" /\ (call.answer # "ok" \/ upstream = <<>>)) =>
        /\ call.tickers = <<>>
        /\ call.requests = 1
        /\ call.op = "topNegative" => call.ret = CouldNotFetch
        /\ call.op = "scanExtreme" => call.ret = ReturnsNone

\* The endpoint holds quotes and answered with a non-zero retCode.
C10_Witness ==
    /\ call.op = "topNegative"
    /\ call.answer = "retcode"
    /\ upstream # <<>>
    /\ call.ret = CouldNotFetch

(***************************************************************************)
(*                   PROPERTIES OF THE CANDLE HARVESTER                    *)
(***************************************************************************)

\* A row the conversion cannot take: not a list, without a time field, or with a
\* time field that is not an integer numeral.
IsNumeral(v) ==
    \/ v.type = "int"
    \/ /\ v.type = "str"
       /\ v.chars # <<>>
       /\ \A i \in 1..Len(v.chars) : v.chars[i] \in {Digits[d] : d \in 1..10}

RowFails(row) ==
    \/ row.type # "list"
    \/ row.items = <<>>
    \/ ~IsNumeral(row.items[1])

\* YYYY-MM-DD
IsDateString(v) ==
    /\ v.type = "str"
    /\ Len(v.chars) = 10
    /\ \A i \in 1..10 :
          IF i \in {5, 8} THEN v.chars[i] = "-"
          ELSE v.chars[i] \in {Digits[d] : d \in 1..10}

\* Output row `out` is input row `in` with only the time field replaced by a date.
SameButTime(out, in) ==
    /\ out.type = in.type
    /\ Len(out.items) = Len(in.items)
    /\ IsDateString(out.items[1])
    /\ \A k \in 2..Len(in.items) : out.items[k] = in.items[k]

\* C11: fetch_market_data returns None or the exact reversal of the rows it
\* received: same length, output row i is input row n-1-i with every field but
\* the time unchanged and the time replaced by a date string; an empty response
\* or a row that raises gives None, never a shortened series.
C11_ExactReversal ==
    harvest.op = "done" =>
        /\ harvest.ret.kind \in {"None", "series"}
        /\ harvest.ret.kind = "series" =>
              /\ Len(harvest.ret.candles) = Len(harvest.received)
              /\ \A i \in 1..Len(harvest.received) :
                    SameButTime(harvest.ret.candles[i],
                                harvest.received[Len(harvest.received) + 1 - i])
        /\ harvest.received = <<>> => harvest.ret.kind = "None"
        /\ (\E i \in 1..Len(harvest.received) : RowFails(harvest.received[i]))
              => harvest.ret.kind = "None"

\* A series of as many rows as the exchange holds was returned, whose first and
\* last rows differ in more than the time field.
C11_Witness ==
    /\ harvest.op = "done"
    /\ harvest.ret.kind = "series"
    /\ Len(harvest.ret.candles) = MaxRows
    /\ Tail(harvest.received[1].items) # Tail(harvest.received[MaxRows].items)
    /\ Tail(harvest.ret.candles[1].items) = Tail(harvest.received[MaxRows].items)

(***************************************************************************)
(*                  PROPERTIES OF THE PERCENTILE LEVELS                    *)
(***************************************************************************)

Ranks == {75, 80, 85, 90, 95, 99}

LevelAt(rank) ==
    CASE rank = 75 -> levels.value.p75_pump
      [] rank = 80 -> levels.value.p80_pump
      [] rank = 85 -> levels.value.p85_pump
      [] rank = 90 -> levels.value.p90_pump
      [] rank = 95 -> levels.value.p95_pump
      [] rank = 99 -> levels.value.p99_pump

\* floor(n * p) for a rank p given in percent.
IndexOf(rank) == (Len(pumps) * rank) \div 100

\* v is the element at 0-based index k of the pump values in ascending order:
\* at most k values lie below it, more than k do not lie above it.
IsOrderStatistic(v, k) ==
    /\ Cardinality({i \in 1..Len(pumps) : Less(pumps[i], v)}) <= k
    /\ Cardinality({i \in 1..Len(pumps) : ~Less(v, pumps[i])}) > k

\* C12: for a non-empty pump distribution of n values the level of each rank p
\* is the element at index floor(n * p) of the ascending values, that index lies
\* in 0..n-1, and the level of a lower rank never exceeds that of a higher one.
C12_PercentileMonotonic ==
    (levels.computed /\ pumps # <<>>) =>
        /\ \A p \in Ranks :
              /\ IndexOf(p) \in 0..(Len(pumps) - 1)
              /\ IsOrderStatistic(LevelAt(p), IndexOf(p))
        /\ \A p1, p2 \in Ranks : p1 < p2 => ~Less(LevelAt(p2), LevelAt(p1))

\* The levels of a distribution of at least 21 values were computed, every rank
\* selects its own index, and the 99th level lies above the 90th.
C12_Witness ==
    /\ levels.computed
    /\ Len(pumps) >= 21
    /\ \A p1, p2 \in Ranks : p1 < p2 => IndexOf(p1) < IndexOf(p2)
    /\ Less(LevelAt(90), LevelAt(99))

(***************************************************************************)
(*                     TERMINATION OF THE RESOLVER                         *)
(***************************************************************************)

\* C13: every call of validate_ticker returns, whatever pages and cursors the
\* listing endpoint serves, provided each request completes.
C13_ResolveReturns == (pc = "loop") ~> (pc = "done")

=============================================================================
